---- MODULE Spec2Model ----
(***************************************************************************)
(* Model of the x-project web server (post lifecycle, topic registry and   *)
(* scheduler).  The server is a single Node.js process: every handler runs *)
(* atomically up to its first await on real I/O (the content generator,    *)
(* the publisher, the mail transport), and other handlers and timer        *)
(* callbacks may run between that await and its continuation.              *)
(*                                                                         *)
(* Strings are sequences of one-character strings.  The clock is measured  *)
(* in minutes; an id is the clock value at creation (Date.now()).          *)
(***************************************************************************)
EXTENDS Integers, Sequences, FiniteSets, TLC

(***************************************************************************)
(* Bounds of the model.                                                    *)
(***************************************************************************)
\* the number of events of the environment (HTTP requests received, timer
\* callbacks run, unit steps of the clock) a behaviour may contain
MaxEvents == 4

(***************************************************************************)
(* Strings.                                                                *)
(***************************************************************************)
TipPrefix == <<"T", "i", "p", ":", " ">>

TipSuffix == <<".", " ", "K", "e", "e", "p", " ", "i", "t", " ", "s", "h", "o", "r", "t", ",", " ", "s", "p", "e", "c", "i", "f", "i", "c", ",", " ", "a", "n", "d", " ", "a", "c", "t", "i", "o", "n", "a", "b", "l", "e", ".", " ", "F", "o", "c", "u", "s", " ", "o", "n", " ", "o", "n", "e", " ", "i", "n", "s", "i", "g", "h", "t", ",", " ", "a", "v", "o", "i", "d", " ", "f", "l", "u", "f", "f", ".">>

DefaultSubject == <<"a", " ", "u", "s", "e", "f", "u", "l", " ", "d", "e", "v", " ", "t", "i", "p">>

CodingTips == <<"c", "o", "d", "i", "n", "g", " ", "t", "i", "p", "s">>

Whitespace == {" ", "\t", "\n"}

\* String.prototype.slice(a, b) for 0 <= a <= b
Slice(s, a, b) == SubSeq(s, a + 1, IF b > Len(s) THEN Len(s) ELSE b)

RECURSIVE TrimStart(_)
TrimStart(s) == IF s # <<>> /\ Head(s) \in Whitespace THEN TrimStart(Tail(s)) ELSE s

RECURSIVE TrimEnd(_)
TrimEnd(s) == IF s # <<>> /\ s[Len(s)] \in Whitespace THEN TrimEnd(SubSeq(s, 1, Len(s) - 1)) ELSE s

\* String.prototype.trim()
Trim(s) == TrimEnd(TrimStart(s))

Repeat(c, n) == [i \in 1..n |-> c]

(***************************************************************************)
(* Inputs of the requests.                                                 *)
(***************************************************************************)
\* req.body.name of POST /api/topics; <<>> is the empty or missing name
TopicNames == {CodingTips, <<>>}

\* an id no post or topic was ever created with
NoSuchId == 0 - 1

\* message.content of the completion returned by the content generator
AiTexts == {<<" ", "o", "k", " ">>, Repeat("x", 281)}

\* error strings of the responses
ErrPostNotFound == "Post not found"

ErrNoCredentials == "X API credentials not configured"

ErrTweet == "tweet failed"

ErrNoActiveTopics == "No active topics found. Please add and enable some topics first."

ErrAi == "completion failed"

VARIABLES
    now,                \* Date.now(), in minutes
    ticks,              \* number of unit steps of the clock so far
    openRouterClient,   \* TRUE iff OPENROUTER_API_KEY is set
    twitterClient,      \* TRUE iff the four TWITTER_* variables are set
    emailConfigured,    \* TRUE iff emailTransporter and EMAIL_TO are set
    topics,             \* Map id -> Topic
    objects,            \* the PendingPost objects ever created, by reference
    pendingPosts,       \* Map id -> reference of a PendingPost object
    approving,          \* approve requests awaiting the publisher
    generating,         \* generations awaiting the generator or the mailer
    publishedOk,        \* references of the posts a publisher call succeeded for
    notified,           \* references of the posts a notification was attempted for
    lastResponse,       \* the response sent (or outcome logged) by the last step, if any
    schedule,           \* the Schedule singleton
    scheduleInterval,   \* handle of the recurring interval, 0 for null
    timers,             \* the live timers of the event loop
    nextHandle,         \* the handle the next setTimeout/setInterval returns
    fires,              \* number of timer callbacks run so far
    requests,           \* number of HTTP requests received so far
    failedPending,      \* references of the posts a publisher call failed for while pending
    staleTimers,        \* handles of the timers that were live before, and left live by,
                        \* the last successful POST /api/schedule
    firstFires,         \* the instants at which a first-fire (setTimeout) callback ran
    cli                 \* the run of the command-line program (src/index.ts), a
                        \* process of its own next to the server

vars == <<now, ticks, openRouterClient, twitterClient, emailConfigured, topics,
          objects, pendingPosts, approving, generating, publishedOk, notified,
          lastResponse, schedule, scheduleInterval, timers, nextHandle, fires, requests,
          failedPending, staleTimers, firstFires, cli>>

schedVars == <<schedule, scheduleInterval, timers, nextHandle, fires, staleTimers, firstFires>>

\* what no handler of the server changes: its credentials, and the command-line run
envVars == <<openRouterClient, twitterClient, emailConfigured, cli>>

\* the command-line program was not started
CliIdle == [pc |-> "idle", args |-> <<>>, postText |-> <<>>, generated |-> FALSE,
            status |-> <<>>, published |-> FALSE]

\* the state of the server
serverVars == <<now, ticks, topics, objects, pendingPosts, approving, generating,
                publishedOk, notified, lastResponse, schedule, scheduleInterval, timers,
                nextHandle, fires, requests, failedPending, staleTimers, firstFires>>

NoResponse == [op |-> "none", id |-> NoSuchId, success |-> FALSE, error |-> "", tid |-> 0,
               overlapApproved |-> FALSE, overlapRejected |-> FALSE, mail |-> "none",
               publisher |-> "none"]

Respond(op, id, success, error) ==
    [NoResponse EXCEPT !.op = op, !.id = id, !.success = success, !.error = error]

\* the status a GET /api/posts shows for id
StatusOf(id) == objects[pendingPosts[id]].status

(***************************************************************************)
(* generatePost of the web server.                                         *)
(***************************************************************************)
\* topic || 'a useful dev tip'
Subject(topic) == IF topic = <<>> THEN DefaultSubject ELSE topic

\* the fallback with the subject left out of the template
generatePostFallbackNoSubject(topic) == TipPrefix \o TipSuffix

\* the fallback without the cut to 279 characters
generatePostFallbackUncut(topic) == TipPrefix \o Subject(topic) \o TipSuffix

\* the branch taken when openRouterClient is null
generatePostFallback(topic) ==
    LET fallback == TipPrefix \o Subject(topic) \o TipSuffix
    IN  IF Len(fallback) > 280 THEN Slice(fallback, 0, 279) ELSE fallback

\* the continuation after the completion arrived with message content c
generatePostAi(c) ==
    LET text == Trim(c)
    IN  IF Len(text) > 280 THEN Slice(text, 0, 279) ELSE text

\* the active topics with the isActive filter forgotten
ActiveTopicsUnfiltered == DOMAIN topics

\* Array.from(topics.values()).filter(topic => topic.isActive), as topic ids
ActiveTopics == {id \in DOMAIN topics : topics[id].isActive}

NewPost(postId, content, topicName) ==
    [id |-> postId, content |-> content, topic |-> topicName, timestamp |-> postId,
     status |-> "pending"]

\* the number of events of the environment so far
Events == requests + fires + ticks

\* one more HTTP request is received
Received ==
    /\ Events < MaxEvents
    /\ requests' = requests + 1

\* the smallest task id not in use
FreeTids == (1..MaxEvents) \ ({t.tid : t \in approving} \cup {t.tid : t \in generating})

NewTid == CHOOSE t \in FreeTids : \A u \in FreeTids : t <= u

(***************************************************************************)
(* Topic registry.                                                         *)
(***************************************************************************)
\* POST /api/topics
AddTopic(name) ==
    /\ Received
    /\ IF name = <<>>
       THEN /\ lastResponse' = Respond("addTopic", NoSuchId, FALSE, "Topic name required")
            /\ UNCHANGED topics
       ELSE /\ topics' = (now :> [id |-> now, name |-> name, createdAt |-> now,
                                  isActive |-> TRUE]) @@ topics
            /\ lastResponse' = Respond("addTopic", now, TRUE, "")
    /\ UNCHANGED <<now, ticks, envVars, objects, pendingPosts, approving, generating,
                   publishedOk, failedPending, notified, schedVars>>

\* the registry with the flag of topic id cleared, not flipped
toggleClearsFlag(registry, id) == [registry EXCEPT ![id].isActive = FALSE]

\* topic.isActive = !topic.isActive; topics.set(id, topic) on the registry
toggle(registry, id) == [registry EXCEPT ![id].isActive = ~registry[id].isActive]

\* POST /api/topics/:id/toggle
ToggleTopic(id) ==
    /\ Received
    /\ IF id \notin DOMAIN topics
       THEN /\ lastResponse' = Respond("toggleTopic", id, FALSE, "Topic not found")
            /\ UNCHANGED topics
       ELSE /\ topics' = toggle(topics, id)
            /\ lastResponse' = Respond("toggleTopic", id, TRUE, "")
    /\ UNCHANGED <<now, ticks, envVars, objects, pendingPosts, approving, generating,
                   publishedOk, failedPending, notified, schedVars>>

\* DELETE /api/topics/:id answering success whatever topics.delete(id) returned
DeleteTopicIgnoresResult(id) ==
    /\ Received
    /\ topics' = [k \in DOMAIN topics \ {id} |-> topics[k]]
    /\ lastResponse' = Respond("deleteTopic", id, TRUE, "")
    /\ UNCHANGED <<now, ticks, envVars, objects, pendingPosts, approving, generating,
                   publishedOk, failedPending, notified, schedVars>>

\* DELETE /api/topics/:id
DeleteTopic(id) ==
    /\ Received
    /\ IF id \notin DOMAIN topics
       THEN /\ lastResponse' = Respond("deleteTopic", id, FALSE, "Topic not found")
            /\ UNCHANGED topics
       ELSE /\ topics' = [k \in DOMAIN topics \ {id} |-> topics[k]]
            /\ lastResponse' = Respond("deleteTopic", id, TRUE, "")
    /\ UNCHANGED <<now, ticks, envVars, objects, pendingPosts, approving, generating,
                   publishedOk, failedPending, notified, schedVars>>

(***************************************************************************)
(* Post lifecycle.                                                         *)
(***************************************************************************)
\* the status of the post stored under id when a request for id arrives
StatusSeen(id) == IF id \in DOMAIN pendingPosts THEN StatusOf(id) ELSE "unknown"

\* POST /api/posts/:id/approve, up to the await of the publisher.  postToX
\* returns at once when the credentials are missing.
Approve(id) ==
    /\ Received
    /\ IF id \notin DOMAIN pendingPosts
       THEN /\ lastResponse' = Respond("approve", id, FALSE, ErrPostNotFound)
            /\ UNCHANGED <<approving, failedPending>>
       ELSE IF ~twitterClient
       THEN /\ lastResponse' = [Respond("approve", id, FALSE, ErrNoCredentials)
                                  EXCEPT !.publisher = "failed"]
            /\ failedPending' = IF StatusOf(id) = "pending"
                                THEN failedPending \cup {pendingPosts[id]}
                                ELSE failedPending
            /\ UNCHANGED approving
       ELSE /\ approving' = approving \cup
                   {[tid |-> NewTid, id |-> id, ref |-> pendingPosts[id],
                     overlapApproved |-> FALSE, overlapRejected |-> FALSE]}
            /\ lastResponse' = NoResponse
            /\ UNCHANGED failedPending
    /\ UNCHANGED <<now, ticks, envVars, topics, objects, pendingPosts, generating,
                   publishedOk, notified, schedVars>>

\* the continuation with the post marked rejected when the publisher failed
ApprovePublishedDropsOnFailure(t, ok) ==
    /\ t \in approving
    /\ IF ok
       THEN /\ objects' = [objects EXCEPT ![t.ref].status = "approved"]
            /\ pendingPosts' = (t.id :> t.ref) @@ pendingPosts
            /\ publishedOk' = publishedOk \cup {t.ref}
            /\ approving' = {[u EXCEPT !.overlapApproved = u.overlapApproved \/ u.id = t.id] :
                                u \in approving \ {t}}
            /\ lastResponse' = [Respond("approve", t.id, TRUE, "") EXCEPT
                                  !.tid = t.tid, !.publisher = "ok",
                                  !.overlapApproved = t.overlapApproved,
                                  !.overlapRejected = t.overlapRejected]
            /\ UNCHANGED failedPending
       ELSE /\ objects' = [objects EXCEPT ![t.ref].status = "rejected"]
            /\ pendingPosts' = (t.id :> t.ref) @@ pendingPosts
            /\ approving' = approving \ {t}
            /\ lastResponse' = [Respond("approve", t.id, FALSE, ErrTweet) EXCEPT
                                  !.tid = t.tid, !.publisher = "failed",
                                  !.overlapApproved = t.overlapApproved,
                                  !.overlapRejected = t.overlapRejected]
            /\ failedPending' = IF objects[t.ref].status = "pending"
                                THEN failedPending \cup {t.ref}
                                ELSE failedPending
            /\ UNCHANGED publishedOk
    /\ UNCHANGED <<now, ticks, envVars, topics, generating, notified, schedVars, requests>>

\* the continuation with the test of result.success forgotten
ApprovePublishedIgnoresResult(t, ok) ==
    /\ t \in approving
    /\ objects' = [objects EXCEPT ![t.ref].status = "approved"]
    /\ pendingPosts' = (t.id :> t.ref) @@ pendingPosts
    /\ publishedOk' = IF ok THEN publishedOk \cup {t.ref} ELSE publishedOk
    /\ approving' = {[u EXCEPT !.overlapApproved = u.overlapApproved \/ u.id = t.id] :
                        u \in approving \ {t}}
    /\ lastResponse' = [Respond("approve", t.id, TRUE, "") EXCEPT
                          !.tid = t.tid, !.publisher = IF ok THEN "ok" ELSE "failed",
                          !.overlapApproved = t.overlapApproved,
                          !.overlapRejected = t.overlapRejected]
    /\ UNCHANGED failedPending
    /\ UNCHANGED <<now, ticks, envVars, topics, generating, notified, schedVars, requests>>

\* the handler's continuation when rw.v2.tweet resolved (ok) or rejected
ApprovePublished(t, ok) ==
    /\ t \in approving
    /\ IF ok
       THEN /\ objects' = [objects EXCEPT ![t.ref].status = "approved"]
            /\ pendingPosts' = (t.id :> t.ref) @@ pendingPosts
            /\ publishedOk' = publishedOk \cup {t.ref}
            /\ approving' = {[u EXCEPT !.overlapApproved = u.overlapApproved \/ u.id = t.id] :
                                u \in approving \ {t}}
            /\ lastResponse' = [Respond("approve", t.id, TRUE, "") EXCEPT
                                  !.tid = t.tid, !.publisher = "ok",
                                  !.overlapApproved = t.overlapApproved,
                                  !.overlapRejected = t.overlapRejected]
            /\ UNCHANGED failedPending
       ELSE /\ approving' = approving \ {t}
            /\ lastResponse' = [Respond("approve", t.id, FALSE, ErrTweet) EXCEPT
                                  !.tid = t.tid, !.publisher = "failed",
                                  !.overlapApproved = t.overlapApproved,
                                  !.overlapRejected = t.overlapRejected]
            /\ failedPending' = IF objects[t.ref].status = "pending"
                                THEN failedPending \cup {t.ref}
                                ELSE failedPending
            /\ UNCHANGED <<objects, pendingPosts, publishedOk>>
    /\ UNCHANGED <<now, ticks, envVars, topics, generating, notified, schedVars, requests>>

\* POST /api/posts/:id/reject
Reject(id) ==
    /\ Received
    /\ IF id \notin DOMAIN pendingPosts
       THEN /\ lastResponse' = Respond("reject", id, FALSE, ErrPostNotFound)
            /\ UNCHANGED <<objects, pendingPosts, approving>>
       ELSE /\ objects' = [objects EXCEPT ![pendingPosts[id]].status = "rejected"]
            /\ pendingPosts' = (id :> pendingPosts[id]) @@ pendingPosts
            /\ approving' = {[u EXCEPT !.overlapRejected = u.overlapRejected \/ u.id = id] :
                                u \in approving}
            /\ lastResponse' = Respond("reject", id, TRUE, "")
    /\ UNCHANGED <<now, ticks, envVars, topics, generating, publishedOk, failedPending,
                   notified, schedVars>>

(***************************************************************************)
(* Scheduler: parsing of the time and computation of the first delay.      *)
(* A Number is <<n>>, and <<>> stands for NaN and for undefined.           *)
(***************************************************************************)
Digits == {"0", "1", "2", "3", "4", "5", "6", "7", "8", "9"}

DigitVal(c) == CHOOSE n \in 0..9 : <<"0", "1", "2", "3", "4", "5", "6", "7", "8", "9">>[n + 1] = c

RECURSIVE DecimalVal(_)
DecimalVal(s) == IF s = <<>> THEN 0 ELSE DecimalVal(SubSeq(s, 1, Len(s) - 1)) * 10 + DigitVal(s[Len(s)])

\* Number(s) on a string of the alphabet (digits, letters, blanks): blanks are
\* trimmed, the empty string is 0, a decimal literal is its value, else NaN
ToNumber(s) ==
    LET t == Trim(s)
    IN  IF \A i \in 1..Len(t) : t[i] \in Digits THEN <<DecimalVal(t)>> ELSE <<>>

RECURSIVE Split(_, _)
\* String.prototype.split(sep) for a one-character separator
Split(s, sep) ==
    IF \E i \in 1..Len(s) : s[i] = sep
    THEN LET i == CHOOSE k \in 1..Len(s) : s[k] = sep /\ \A j \in 1..(k - 1) : s[j] # sep
         IN  <<SubSeq(s, 1, i - 1)>> \o Split(SubSeq(s, i + 1, Len(s)), sep)
    ELSE <<s>>

\* const [hours, minutes] = schedule.time.split(':').map(Number)
ParseTime(time) ==
    LET parts == Split(time, ":")
    IN  [hours |-> ToNumber(parts[1]),
         minutes |-> IF Len(parts) >= 2 THEN ToNumber(parts[2]) ELSE <<>>]

\* x || d with NaN read as 0 instead of replaced by d
OrElseNaNIsZero(x, d) == IF x = <<>> THEN 0 ELSE x[1]

\* x || d on a Number
OrElse(x, d) == IF x = <<>> \/ x = <<0>> THEN d ELSE x[1]

MinutesPerDay == 1440

\* the UTC offset, in minutes, of the zones of the timezone database that the
\* model knows (offsets are fixed: no daylight saving change is modelled)
ZoneOffset == [z \in {"UTC", "Asia/Kolkata", "America/New_York"} |->
                 IF z = "UTC" THEN 0 ELSE IF z = "Asia/Kolkata" THEN 330 ELSE 0 - 300]

KnownZone(z) == z \in DOMAIN ZoneOffset

\* new Date(now.toLocaleString("en-US", {timeZone})): the wall clock of the zone
UserTime(t, zone) == t + ZoneOffset[zone]

\* nextRun of startScheduler, on the time line of userTime
NextRun(time, zone, t) ==
    LET userTime == UserTime(t, zone)
        p == ParseTime(time)
        midnight == userTime - (userTime % MinutesPerDay)
        nextRun == midnight + OrElse(p.hours, 9) * 60 + OrElse(p.minutes, 0)
    IN  IF nextRun <= userTime THEN nextRun + MinutesPerDay ELSE nextRun

\* delay = nextRun.getTime() - userTime.getTime()
Delay(time, zone, t) == NextRun(time, zone, t) - UserTime(t, zone)

\* the interval with every frequency read as daily
IntervalOfAlwaysDaily(frequency) == 24 * 60

\* intervalMs of setupRecurringSchedule, in minutes
IntervalOf(frequency) ==
    CASE frequency = "daily" -> 24 * 60
      [] frequency = "weekly" -> 7 * 24 * 60
      [] frequency = "monthly" -> 30 * 24 * 60
      [] OTHER -> 24 * 60

Timeout(h, due) == [h |-> h, kind |-> "timeout", due |-> due, period |-> 0]

Interval(h, due, period) == [h |-> h, kind |-> "interval", due |-> due, period |-> period]

\* clearInterval(scheduleInterval) when scheduleInterval is not null
ClearScheduleInterval(tm) == {t \in tm : t.h # scheduleInterval}

\* setupRecurringSchedule(), run with the live timers tm at the time now'
setupRecurringSchedule(tm) ==
    IF ~schedule'.isActive
    THEN /\ timers' = tm
         /\ UNCHANGED <<scheduleInterval, nextHandle>>
    ELSE /\ timers' = tm \cup {Interval(nextHandle, now' + IntervalOf(schedule'.frequency),
                                        IntervalOf(schedule'.frequency))}
         /\ scheduleInterval' = nextHandle
         /\ nextHandle' = nextHandle + 1

(***************************************************************************)
(* Generation: POST /api/generate-post and generateScheduledPost run the   *)
(* same steps; origin is "generate" (the HTTP request), "timeout" (the     *)
(* first-fire callback, which calls setupRecurringSchedule afterwards) or  *)
(* "interval".                                                             *)
(***************************************************************************)
\* the end of a generation with the recurrence set up only after a success
CompleteStopsOnFailure(origin, tm, resp) ==
    /\ lastResponse' = resp
    /\ IF origin = "timeout" /\ resp.success
       THEN setupRecurringSchedule(tm)
       ELSE /\ timers' = tm
            /\ UNCHANGED <<scheduleInterval, nextHandle>>

\* the end of a generation: the response of the HTTP handler, or the return of
\* generateScheduledPost into the timer callback
Complete(origin, tm, resp) ==
    /\ lastResponse' = resp
    /\ IF origin = "timeout"
       THEN setupRecurringSchedule(tm)
       ELSE /\ timers' = tm
            /\ UNCHANGED <<scheduleInterval, nextHandle>>

\* pendingPosts.set(postId, post) and sendEmailNotification(post) up to the
\* await of sendMail; sendEmailNotification returns at once when the mail
\* transport is not configured
CreatePost(origin, tid, topicName, content, tm, others) ==
    LET ref == Len(objects) + 1
    IN  /\ objects' = Append(objects, NewPost(now', content, topicName))
        /\ pendingPosts' = (now' :> ref) @@ pendingPosts
        /\ IF emailConfigured
           THEN /\ notified' = notified \cup {ref}
                /\ generating' = others \cup
                       {[tid |-> tid, origin |-> origin, phase |-> "mail",
                         topic |-> topicName, ref |-> ref]}
                /\ timers' = tm
                /\ lastResponse' = NoResponse
                /\ UNCHANGED <<scheduleInterval, nextHandle>>
           ELSE /\ generating' = others
                /\ UNCHANGED notified
                /\ Complete(origin, tm, Respond(origin, now', TRUE, ""))

\* the steps from the read of the active topics to the first await on I/O
StartGeneration(origin, tm) ==
    IF ActiveTopics = {}
    THEN /\ Complete(origin, tm, Respond(origin, NoSuchId, FALSE, ErrNoActiveTopics))
         /\ UNCHANGED <<objects, pendingPosts, generating, notified>>
    ELSE \E randomTopic \in ActiveTopics :
           /\ IF openRouterClient
              THEN /\ generating' = generating \cup
                          {[tid |-> NewTid, origin |-> origin, phase |-> "ai",
                            topic |-> topics[randomTopic].name, ref |-> 0]}
                   /\ timers' = tm
                   /\ lastResponse' = NoResponse
                   /\ UNCHANGED <<objects, pendingPosts, notified, scheduleInterval,
                                  nextHandle>>
              ELSE CreatePost(origin, NewTid,
                              topics[randomTopic].name,
                              generatePostFallback(topics[randomTopic].name), tm, generating)

\* POST /api/generate-post
GeneratePost ==
    /\ Received
    /\ UNCHANGED <<now, ticks, envVars, topics, approving, publishedOk, failedPending,
                   schedule, staleTimers, firstFires, fires>>
    /\ StartGeneration("generate", timers)

\* the completion request of generatePost resolved with text c
GenerateAiDone(t, c) ==
    /\ t \in generating
    /\ t.phase = "ai"
    /\ UNCHANGED <<now, ticks, envVars, topics, approving, publishedOk, failedPending,
                   schedule, staleTimers, firstFires, fires, requests>>
    /\ CreatePost(t.origin, t.tid, t.topic, generatePostAi(c), timers, generating \ {t})

\* the completion request of generatePost rejected: the exception reaches the
\* catch of the route or of generateScheduledPost
GenerateAiFailed(t) ==
    /\ t \in generating
    /\ t.phase = "ai"
    /\ UNCHANGED <<now, ticks, envVars, topics, objects, pendingPosts, approving,
                   publishedOk, failedPending, notified, schedule, staleTimers, firstFires, fires, requests>>
    /\ generating' = generating \ {t}
    /\ Complete(t.origin, timers, Respond(t.origin, NoSuchId, FALSE, ErrAi))

\* sendMail resolved (ok) or rejected, with the rejection not caught
GenerateMailedPropagates(t, ok) ==
    /\ t \in generating
    /\ t.phase = "mail"
    /\ UNCHANGED <<now, ticks, envVars, topics, objects, pendingPosts, approving,
                   publishedOk, failedPending, notified, schedule, staleTimers, firstFires, fires, requests>>
    /\ generating' = generating \ {t}
    /\ Complete(t.origin, timers,
                IF ok THEN [Respond(t.origin, objects[t.ref].id, TRUE, "") EXCEPT !.mail = "sent"]
                ELSE [Respond(t.origin, NoSuchId, FALSE, "sendMail failed") EXCEPT !.mail = "failed"])

\* sendMail resolved (ok) or rejected; sendEmailNotification catches the error
GenerateMailed(t, ok) ==
    /\ t \in generating
    /\ t.phase = "mail"
    /\ UNCHANGED <<now, ticks, envVars, topics, objects, pendingPosts, approving,
                   publishedOk, failedPending, notified, schedule, staleTimers, firstFires, fires, requests>>
    /\ generating' = generating \ {t}
    /\ Complete(t.origin, timers,
                [Respond(t.origin, objects[t.ref].id, TRUE, "")
                   EXCEPT !.mail = IF ok THEN "sent" ELSE "failed"])

(***************************************************************************)
(* GET /api/posts.  A reference stands for the post object it denotes.     *)
(***************************************************************************)
RECURSIVE ValuesFrom(_)
\* Array.from(pendingPosts.values()) restricted to the keys ids: a Map iterates
\* in the order the keys were first set, which is the order of the ids
ValuesFrom(ids) ==
    IF ids = {} THEN <<>>
    ELSE LET first == CHOOSE id \in ids : \A k \in ids : id <= k
         IN  <<pendingPosts[first]>> \o ValuesFrom(ids \ {first})

RECURSIVE SortByTimestampDesc(_)
\* posts.sort((a, b) => b.timestamp.getTime() - a.timestamp.getTime()): a stable
\* sort, so a post goes after those that are not older than it
SortByTimestampDesc(posts) ==
    IF posts = <<>> THEN <<>>
    ELSE LET r == posts[Len(posts)]
             sorted == SortByTimestampDesc(SubSeq(posts, 1, Len(posts) - 1))
             before == SelectSeq(sorted, LAMBDA q : objects[q].timestamp >= objects[r].timestamp)
             after == SelectSeq(sorted, LAMBDA q : objects[q].timestamp < objects[r].timestamp)
         IN  before \o <<r>> \o after

\* the filtered posts in the order of the Map, not sorted
listPostsUnsorted(status) ==
    LET posts == ValuesFrom(DOMAIN pendingPosts)
    IN  IF status # "" THEN SelectSeq(posts, LAMBDA r : objects[r].status = status) ELSE posts

\* the posts of the response; the query parameter status is "" when absent
listPosts(status) ==
    LET posts == ValuesFrom(DOMAIN pendingPosts)
    IN  SortByTimestampDesc(IF status # ""
                            THEN SelectSeq(posts, LAMBDA r : objects[r].status = status)
                            ELSE posts)

\* GET /api/posts
ListPosts(status) ==
    /\ Received
    /\ lastResponse' = [op |-> "list", id |-> NoSuchId, success |-> TRUE, error |-> "",
                        tid |-> 0, overlapApproved |-> FALSE, overlapRejected |-> FALSE,
                        mail |-> "none", publisher |-> "none", filter |-> status,
                        posts |-> listPosts(status)]
    /\ UNCHANGED <<now, ticks, envVars, topics, objects, pendingPosts, approving, generating,
                   publishedOk, failedPending, notified, schedVars>>

(***************************************************************************)
(* Scheduler.                                                              *)
(***************************************************************************)
\* a live timer comes due and its callback runs up to its first await on I/O
FireTimer(t) ==
    /\ t \in timers
    /\ \A u \in timers : t.due <= u.due
    /\ Events < MaxEvents
    /\ fires' = fires + 1
    /\ now' = IF t.due > now THEN t.due ELSE now
    /\ UNCHANGED <<schedule, staleTimers>>
    /\ firstFires' = IF t.kind = "timeout" THEN firstFires \cup {now'} ELSE firstFires
    /\ IF t.kind = "timeout"
       THEN StartGeneration("timeout", timers \ {t})
       ELSE StartGeneration("interval", (timers \ {t}) \cup {[t EXCEPT !.due = now' + t.period]})
    /\ UNCHANGED <<ticks, envVars, topics, approving, publishedOk, failedPending, requests>>

\* POST /api/schedule with an unknown zone silently read as UTC
UpdateScheduleDefaultsZone(frequency, time, timezone) ==
    /\ Received
    /\ IF frequency = "" \/ time = <<>> \/ timezone = ""
       THEN /\ lastResponse' = Respond("schedule", NoSuchId, FALSE,
                                       "Frequency, time, and timezone required")
            /\ UNCHANGED <<schedule, scheduleInterval, timers, nextHandle, staleTimers>>
       ELSE /\ schedule' = [schedule EXCEPT !.frequency = frequency, !.time = time,
                                            !.timezone = timezone]
            /\ UNCHANGED scheduleInterval
            /\ IF ~schedule.isActive
               THEN /\ timers' = ClearScheduleInterval(timers)
                    /\ staleTimers' = {t.h : t \in ClearScheduleInterval(timers)}
                    /\ lastResponse' = Respond("schedule", NoSuchId, TRUE, "")
                    /\ UNCHANGED nextHandle
               ELSE /\ timers' = ClearScheduleInterval(timers) \cup
                                   {Timeout(nextHandle,
                                            now + Delay(time, IF KnownZone(timezone) THEN timezone
                                                              ELSE "UTC", now))}
                    /\ staleTimers' = {t.h : t \in ClearScheduleInterval(timers)}
                    /\ nextHandle' = nextHandle + 1
                    /\ lastResponse' = Respond("schedule", NoSuchId, TRUE, "")
    /\ UNCHANGED <<now, ticks, envVars, topics, objects, pendingPosts, approving, generating,
                   publishedOk, failedPending, notified, fires, firstFires>>

\* POST /api/schedule dropping the scheduled generations that are in flight
UpdateScheduleCancelsInFlight(frequency, time, timezone) ==
    /\ Received
    /\ IF frequency = "" \/ time = <<>> \/ timezone = ""
       THEN /\ lastResponse' = Respond("schedule", NoSuchId, FALSE,
                                       "Frequency, time, and timezone required")
            /\ UNCHANGED <<schedule, scheduleInterval, timers, nextHandle, staleTimers>>
       ELSE /\ schedule' = [schedule EXCEPT !.frequency = frequency, !.time = time,
                                            !.timezone = timezone]
            /\ UNCHANGED scheduleInterval
            /\ IF ~schedule.isActive
               THEN /\ timers' = ClearScheduleInterval(timers)
                    /\ staleTimers' = {t.h : t \in ClearScheduleInterval(timers)}
                    /\ lastResponse' = Respond("schedule", NoSuchId, TRUE, "")
                    /\ UNCHANGED nextHandle
               ELSE IF ~KnownZone(timezone)
               THEN /\ timers' = ClearScheduleInterval(timers)
                    /\ lastResponse' = Respond("schedule", NoSuchId, FALSE,
                                               "Invalid time zone specified")
                    /\ UNCHANGED <<nextHandle, staleTimers>>
               ELSE /\ timers' = ClearScheduleInterval(timers) \cup
                                   {Timeout(nextHandle, now + Delay(time, timezone, now))}
                    /\ staleTimers' = {t.h : t \in ClearScheduleInterval(timers)}
                    /\ nextHandle' = nextHandle + 1
                    /\ lastResponse' = Respond("schedule", NoSuchId, TRUE, "")
    /\ generating' = {t \in generating : t.origin = "generate"}
    /\ UNCHANGED <<now, ticks, envVars, topics, objects, pendingPosts, approving,
                   publishedOk, failedPending, notified, fires, firstFires>>

\* POST /api/schedule with the config replaced by the three fields of the
\* request, so that isActive is lost and startScheduler() finds it false
UpdateScheduleReplacesConfig(frequency, time, timezone) ==
    /\ Received
    /\ IF frequency = "" \/ time = <<>> \/ timezone = ""
       THEN /\ lastResponse' = Respond("schedule", NoSuchId, FALSE,
                                       "Frequency, time, and timezone required")
            /\ UNCHANGED <<schedule, scheduleInterval, timers, nextHandle, staleTimers>>
       ELSE /\ schedule' = [frequency |-> frequency, time |-> time, timezone |-> timezone,
                            isActive |-> FALSE]
            /\ timers' = ClearScheduleInterval(timers)
            /\ staleTimers' = {t.h : t \in ClearScheduleInterval(timers)}
            /\ lastResponse' = Respond("schedule", NoSuchId, TRUE, "")
            /\ UNCHANGED <<scheduleInterval, nextHandle>>
    /\ UNCHANGED <<now, ticks, envVars, topics, objects, pendingPosts, approving, generating,
                   publishedOk, failedPending, notified, fires, firstFires>>

\* POST /api/schedule, with startScheduler(): toLocaleString throws a RangeError
\* on a zone the timezone database does not know, after the fields were
\* assigned and the interval cleared; the route's catch reports it
UpdateSchedule(frequency, time, timezone) ==
    /\ Received
    /\ IF frequency = "" \/ time = <<>> \/ timezone = ""
       THEN /\ lastResponse' = Respond("schedule", NoSuchId, FALSE,
                                       "Frequency, time, and timezone required")
            /\ UNCHANGED <<schedule, scheduleInterval, timers, nextHandle, staleTimers>>
       ELSE /\ schedule' = [schedule EXCEPT !.frequency = frequency, !.time = time,
                                            !.timezone = timezone]
            /\ UNCHANGED scheduleInterval
            /\ IF ~schedule.isActive
               THEN /\ timers' = ClearScheduleInterval(timers)
                    /\ staleTimers' = {t.h : t \in ClearScheduleInterval(timers)}
                    /\ lastResponse' = Respond("schedule", NoSuchId, TRUE, "")
                    /\ UNCHANGED nextHandle
               ELSE IF ~KnownZone(timezone)
               THEN /\ timers' = ClearScheduleInterval(timers)
                    /\ lastResponse' = Respond("schedule", NoSuchId, FALSE,
                                               "Invalid time zone specified")
                    /\ UNCHANGED <<nextHandle, staleTimers>>
               ELSE /\ timers' = ClearScheduleInterval(timers) \cup
                                   {Timeout(nextHandle, now + Delay(time, timezone, now))}
                    /\ staleTimers' = {t.h : t \in ClearScheduleInterval(timers)}
                    /\ nextHandle' = nextHandle + 1
                    /\ lastResponse' = Respond("schedule", NoSuchId, TRUE, "")
    /\ UNCHANGED <<now, ticks, envVars, topics, objects, pendingPosts, approving, generating,
                   publishedOk, failedPending, notified, fires, firstFires>>

\* the clock advances by one unit
Tick ==
    /\ Events < MaxEvents
    /\ ticks' = ticks + 1
    /\ now' = now + 1
    /\ lastResponse' = NoResponse
    /\ UNCHANGED <<envVars, topics, objects, pendingPosts, approving, generating,
                   publishedOk, failedPending, notified, schedVars, requests>>

(***************************************************************************)
(* Specification.                                                          *)
(***************************************************************************)
Time0900 == <<"0", "9", ":", "0", "0">>

Time1000 == <<"1", "0", ":", "0", "0">>

\* the instant the server is started at: 09:30 UTC of day 0
StartTimes == {570}

Frequencies == {"weekly", ""}

Times == {Time1000}

Timezones == {"UTC", "Mars/Phobos"}

\* the state after app.listen's callback ran startScheduler()
Init ==
    /\ now \in StartTimes
    /\ ticks = 0
    /\ openRouterClient \in BOOLEAN
    /\ twitterClient \in BOOLEAN
    /\ emailConfigured \in BOOLEAN
    /\ topics = <<>>
    /\ objects = <<>>
    /\ pendingPosts = <<>>
    /\ approving = {}
    /\ generating = {}
    /\ publishedOk = {}
    /\ notified = {}
    /\ lastResponse = NoResponse
    /\ schedule = [frequency |-> "daily", time |-> Time0900, timezone |-> "UTC",
                   isActive |-> TRUE]
    /\ scheduleInterval = 0
    /\ timers = {Timeout(1, now + Delay(Time0900, "UTC", now))}
    /\ nextHandle = 2
    /\ fires = 0
    /\ requests = 0
    /\ failedPending = {}
    /\ staleTimers = {}
    /\ firstFires = {}
    /\ cli = CliIdle

Next ==
    \/ \E name \in TopicNames : AddTopic(name)
    \/ \E id \in DOMAIN topics \cup {NoSuchId} : ToggleTopic(id)
    \/ \E id \in DOMAIN topics \cup {NoSuchId} : DeleteTopic(id)
    \/ \E id \in DOMAIN pendingPosts \cup {NoSuchId} : Approve(id)
    \/ \E t \in approving, ok \in BOOLEAN : ApprovePublished(t, ok)
    \/ \E id \in DOMAIN pendingPosts \cup {NoSuchId} : Reject(id)
    \/ GeneratePost
    \/ \E t \in generating, c \in AiTexts : GenerateAiDone(t, c)
    \/ \E t \in generating : GenerateAiFailed(t)
    \/ \E t \in generating, ok \in BOOLEAN : GenerateMailed(t, ok)
    \/ \E t \in timers : FireTimer(t)
    \/ \E f \in Frequencies, tm \in Times, z \in Timezones : UpdateSchedule(f, tm, z)
    \/ Tick

Spec == Init /\ [][Next]_vars

(***************************************************************************)
(* Specification of the content pipeline: the topic and generate requests  *)
(* only, with topic names and completions at and around the 280-character  *)
(* limit, on a server without publisher and mail credentials.              *)
(***************************************************************************)
\* a fallback of 280 characters has a subject of 198
ContentTopicNames == {CodingTips, <<"a", " ", " ", "b">>, Repeat("x", 198), Repeat("x", 199), <<>>}

ContentAiTexts == {<<" ", "o", " ", " ", "k", " ">>, Repeat("x", 280), Repeat("x", 281)}

InitContent == Init /\ ~twitterClient /\ ~emailConfigured

NextContent ==
    \/ \E name \in ContentTopicNames : AddTopic(name)
    \/ GeneratePost
    \/ \E t \in generating, c \in ContentAiTexts : GenerateAiDone(t, c)
    \/ \E t \in generating : GenerateAiFailed(t)

SpecContent == InitContent /\ [][NextContent]_vars

(***************************************************************************)
(* Specification of the first-fire computation: schedule updates with      *)
(* times all over the day (hour 00 and minute 00 included) and times that  *)
(* are not HH:MM, in three zones, on servers started at four instants, and *)
(* the firing of the timers; no topic is registered.                       *)
(***************************************************************************)
\* the number of schedule updates a behaviour of SpecTime may contain
MaxUpdates == 1

WellFormedTimes ==
    {<<"0", "0", ":", "0", "0">>, <<"0", "0", ":", "0", "1">>,
     <<"0", "0", ":", "3", "0">>, <<"0", "0", ":", "5", "9">>,
     <<"0", "1", ":", "0", "0">>, <<"0", "1", ":", "0", "1">>,
     <<"0", "1", ":", "3", "0">>, <<"0", "1", ":", "5", "9">>,
     <<"0", "9", ":", "0", "0">>, <<"0", "9", ":", "0", "1">>,
     <<"0", "9", ":", "3", "0">>, <<"0", "9", ":", "5", "9">>,
     <<"1", "2", ":", "0", "0">>, <<"1", "2", ":", "0", "1">>,
     <<"1", "2", ":", "3", "0">>, <<"1", "2", ":", "5", "9">>,
     <<"2", "3", ":", "0", "0">>, <<"2", "3", ":", "0", "1">>,
     <<"2", "3", ":", "3", "0">>, <<"2", "3", ":", "5", "9">>}

MalformedTimes == {<<"a", "b", "c">>, <<"a", "b", ":", "3", "0">>, <<"1", "2", ":", "x", "x">>, <<"9">>}

TimeInputs == WellFormedTimes \cup MalformedTimes

TimeZones == {"UTC", "Asia/Kolkata", "America/New_York"}

\* 00:00, 03:20, 09:30 and 23:59 UTC of day 0
TimeStarts == {0, 200, 570, 1439}

InitTime ==
    /\ now \in TimeStarts
    /\ ticks = 0
    /\ openRouterClient = FALSE
    /\ twitterClient = FALSE
    /\ emailConfigured = FALSE
    /\ topics = <<>>
    /\ objects = <<>>
    /\ pendingPosts = <<>>
    /\ approving = {}
    /\ generating = {}
    /\ publishedOk = {}
    /\ notified = {}
    /\ lastResponse = NoResponse
    /\ schedule = [frequency |-> "daily", time |-> Time0900, timezone |-> "UTC",
                   isActive |-> TRUE]
    /\ scheduleInterval = 0
    /\ timers = {Timeout(1, now + Delay(Time0900, "UTC", now))}
    /\ nextHandle = 2
    /\ fires = 0
    /\ requests = 0
    /\ failedPending = {}
    /\ staleTimers = {}
    /\ firstFires = {}
    /\ cli = CliIdle

NextTime ==
    \/ \E tm \in TimeInputs, z \in TimeZones :
          requests < MaxUpdates /\ UpdateSchedule("daily", tm, z)
    \/ \E t \in timers : FireTimer(t)

SpecTime == InitTime /\ [][NextTime]_vars

(***************************************************************************)
(* Specification of the recurrence: one topic, schedule updates with every *)
(* frequency in a known and in an unknown zone, the timers, the            *)
(* generations they start and the clock.                                   *)
(***************************************************************************)
SchedFrequencies == {"daily", "weekly", "monthly", "hourly"}

SchedAiTexts == {<<"o", "k">>}

NextSched ==
    \/ AddTopic(CodingTips)
    \/ \E f \in SchedFrequencies, z \in Timezones : UpdateSchedule(f, Time1000, z)
    \/ \E t \in timers : FireTimer(t)
    \/ \E t \in generating, c \in SchedAiTexts : GenerateAiDone(t, c)
    \/ \E t \in generating : GenerateAiFailed(t)
    \/ \E t \in generating, ok \in BOOLEAN : GenerateMailed(t, ok)
    \/ Tick

SpecSched == Init /\ [][NextSched]_vars

(***************************************************************************)
(* Specification of the scheduler left alone: no schedule update arrives,  *)
(* topics are added and toggled, the timers fire and the generations they  *)
(* start complete.  The event loop runs the callback of a due timer, and   *)
(* a request to the content generator or to the mail server settles        *)
(* (both clients give up after a timeout): hence the weak fairness.        *)
(***************************************************************************)
Fire == \E t \in timers : FireTimer(t)

Settle ==
    \E t \in generating :
       \/ \E c \in SchedAiTexts : GenerateAiDone(t, c)
       \/ GenerateAiFailed(t)
       \/ \E ok \in BOOLEAN : GenerateMailed(t, ok)

NextLive ==
    \/ AddTopic(CodingTips)
    \/ \E id \in DOMAIN topics : ToggleTopic(id)
    \/ Fire
    \/ Settle

SpecLive == Init /\ [][NextLive]_vars /\ WF_vars(Fire) /\ WF_vars(Settle)

(***************************************************************************)
(* Specification of the topic registry: the three topic requests, with     *)
(* names that are empty (or missing), blank and proper, and the clock, on  *)
(* a server without credentials.                                           *)
(***************************************************************************)
RegistryNames == {CodingTips, <<"a">>, <<>>, <<" ", " ">>, <<"\t">>}

InitBare == Init /\ ~openRouterClient /\ ~twitterClient /\ ~emailConfigured

NextTopics ==
    \/ \E name \in RegistryNames : AddTopic(name)
    \/ \E id \in DOMAIN topics \cup {NoSuchId} : ToggleTopic(id)
    \/ \E id \in DOMAIN topics \cup {NoSuchId} : DeleteTopic(id)
    \/ Tick

SpecTopics == InitBare /\ [][NextTopics]_vars

(***************************************************************************)
(* Specification of the calls in flight: generations (requested and        *)
(* scheduled) and approvals with their awaits on the generator, the mailer *)
(* and the publisher, and a schedule update arriving in between.           *)
(***************************************************************************)
NextFlight ==
    \/ AddTopic(CodingTips)
    \/ GeneratePost
    \/ \E t \in generating, c \in SchedAiTexts : GenerateAiDone(t, c)
    \/ \E t \in generating : GenerateAiFailed(t)
    \/ \E t \in generating, ok \in BOOLEAN : GenerateMailed(t, ok)
    \/ \E id \in DOMAIN pendingPosts : Approve(id)
    \/ \E t \in approving, ok \in BOOLEAN : ApprovePublished(t, ok)
    \/ UpdateSchedule("weekly", Time1000, "UTC")
    \/ \E t \in timers : FireTimer(t)

SpecFlight == Init /\ [][NextFlight]_vars

(***************************************************************************)
(* Specification of the listing of posts: posts are created by request and *)
(* by the scheduler, approved and rejected, and listed with each filter,   *)
(* on a server without content generator and mail transport.               *)
(***************************************************************************)
StatusFilters == {"", "pending", "approved", "rejected", "draft"}

InitList == Init /\ ~openRouterClient /\ ~emailConfigured

NextList ==
    \/ AddTopic(CodingTips)
    \/ GeneratePost
    \/ \E id \in DOMAIN pendingPosts : Approve(id)
    \/ \E t \in approving, ok \in BOOLEAN : ApprovePublished(t, ok)
    \/ \E id \in DOMAIN pendingPosts : Reject(id)
    \/ \E t \in timers : FireTimer(t)
    \/ \E status \in StatusFilters : ListPosts(status)
    \/ Tick

SpecList == InitList /\ [][NextList]_vars

(***************************************************************************)
(* Specification of the requests against the ScheduleConfig: every request *)
(* of the server, the timers and the clock, on a server without            *)
(* credentials, where no handler awaits.                                   *)
(***************************************************************************)
ConfigFrequencies == {"weekly", "hourly", ""}

NextConfig ==
    \/ AddTopic(CodingTips)
    \/ \E id \in DOMAIN topics : ToggleTopic(id)
    \/ \E id \in DOMAIN topics : DeleteTopic(id)
    \/ GeneratePost
    \/ \E id \in DOMAIN pendingPosts : Approve(id)
    \/ \E id \in DOMAIN pendingPosts : Reject(id)
    \/ ListPosts("")
    \/ \E f \in ConfigFrequencies, z \in Timezones : UpdateSchedule(f, Time1000, z)
    \/ \E t \in timers : FireTimer(t)
    \/ Tick

SpecConfig == InitBare /\ [][NextConfig]_vars

(***************************************************************************)
(* Specification of the topic selection: the registry requests, the clock  *)
(* and generations (requested and scheduled) with and without a            *)
(* ContentGenerator and a mail transport.                                  *)
(***************************************************************************)
SelectNames == {CodingTips, <<"a">>}

InitSelect == Init /\ ~twitterClient

NextSelect ==
    \/ \E name \in SelectNames : AddTopic(name)
    \/ \E id \in DOMAIN topics : ToggleTopic(id)
    \/ \E id \in DOMAIN topics : DeleteTopic(id)
    \/ GeneratePost
    \/ \E t \in generating, c \in SchedAiTexts : GenerateAiDone(t, c)
    \/ \E t \in generating : GenerateAiFailed(t)
    \/ \E t \in generating, ok \in BOOLEAN : GenerateMailed(t, ok)
    \/ \E t \in timers : FireTimer(t)
    \/ Tick

SpecSelect == InitSelect /\ [][NextSelect]_vars

(***************************************************************************)
(* The scheduler script (the TypeScript source at the end of               *)
(* GITHUB_ACTIONS_SETUP.md): a process of its own, with its own            *)
(* pendingPosts Map and a topics Map that nothing writes.  It is started   *)
(* with --post-now [topic] or with --schedule [hours].                     *)
(***************************************************************************)
\* generatePost of the script
schedulerGeneratePost(topic) ==
    LET fallback == TipPrefix \o Subject(topic) \o TipSuffix
    IN  IF Len(fallback) > 280 THEN Slice(fallback, 0, 279) ELSE fallback

\* createPendingPost with post.topic never set
createPendingPostDropsTopic(topic) ==
    /\ objects' = Append(objects, NewPost(now, schedulerGeneratePost(topic), <<>>))
    /\ pendingPosts' = (now :> (Len(objects) + 1)) @@ pendingPosts
    /\ lastResponse' = [op |-> "createPendingPost", id |-> now, success |-> TRUE,
                        error |-> "", tid |-> 0, overlapApproved |-> FALSE,
                        overlapRejected |-> FALSE, mail |-> "none", publisher |-> "none",
                        topic |-> topic]

\* createPendingPost(topic), <<>> being the absent topic; the response stands
\* for the log entry {postId, topic, content} and the post returned
createPendingPost(topic) ==
    /\ objects' = Append(objects, NewPost(now, schedulerGeneratePost(topic), topic))
    /\ pendingPosts' = (now :> (Len(objects) + 1)) @@ pendingPosts
    /\ lastResponse' = [op |-> "createPendingPost", id |-> now, success |-> TRUE,
                        error |-> "", tid |-> 0, overlapApproved |-> FALSE,
                        overlapRejected |-> FALSE, mail |-> "none", publisher |-> "none",
                        topic |-> topic]

\* the script run with --post-now topic (--post-now alone when topic is <<>>)
PostNow(topic) ==
    /\ requests = 0
    /\ Received
    /\ createPendingPost(topic)
    /\ UNCHANGED <<now, ticks, envVars, topics, approving, generating, publishedOk,
                   failedPending, notified, schedVars>>

\* process.argv[scheduleIndex + 1] ? parseInt(process.argv[scheduleIndex + 1]) : 24,
\* on an argument that is absent (<<>>) or a decimal literal
HoursOf(arg) == IF arg = <<>> THEN 24 ELSE DecimalVal(arg)

\* the script run with --schedule [hours]: schedulePosts(hours)
schedulePosts(arg) ==
    /\ requests = 0
    /\ Received
    /\ createPendingPost(<<>>)
    /\ timers' = {Interval(nextHandle, now + HoursOf(arg) * 60, HoursOf(arg) * 60)}
    /\ nextHandle' = nextHandle + 1
    /\ UNCHANGED <<now, ticks, envVars, topics, approving, generating, publishedOk,
                   failedPending, notified, schedule, scheduleInterval, fires, staleTimers,
                   firstFires>>

\* the callback of the script's setInterval
ScriptFire(t) ==
    /\ t \in timers
    /\ Events < MaxEvents
    /\ fires' = fires + 1
    /\ now' = IF t.due > now THEN t.due ELSE now
    /\ objects' = Append(objects, NewPost(now', schedulerGeneratePost(<<>>), <<>>))
    /\ pendingPosts' = (now' :> (Len(objects) + 1)) @@ pendingPosts
    /\ lastResponse' = [op |-> "createPendingPost", id |-> now', success |-> TRUE,
                        error |-> "", tid |-> 0, overlapApproved |-> FALSE,
                        overlapRejected |-> FALSE, mail |-> "none", publisher |-> "none",
                        topic |-> <<>>]
    /\ timers' = {[t EXCEPT !.due = now' + t.period]}
    /\ UNCHANGED <<ticks, envVars, topics, approving, generating, publishedOk,
                   failedPending, notified, schedule, scheduleInterval, nextHandle,
                   staleTimers, firstFires, requests>>

\* the topic argument of --post-now: absent, "coding tips", and names of 1 to 24
\* and of 198 and 199 characters
PostNowTopics ==
    {<<>>, CodingTips} \cup {Repeat("x", n) : n \in 1..24} \cup {Repeat("x", 198), Repeat("x", 199)}

ScheduleArgs == {<<>>, <<"6">>}

ScriptStarts == {0, 570}

\* the script was started: both Maps are empty and no timer is set
InitScript ==
    /\ now \in ScriptStarts
    /\ ticks = 0
    /\ openRouterClient = FALSE
    /\ twitterClient = FALSE
    /\ emailConfigured = FALSE
    /\ topics = <<>>
    /\ objects = <<>>
    /\ pendingPosts = <<>>
    /\ approving = {}
    /\ generating = {}
    /\ publishedOk = {}
    /\ notified = {}
    /\ lastResponse = NoResponse
    /\ schedule = [frequency |-> "daily", time |-> Time0900, timezone |-> "UTC",
                   isActive |-> TRUE]
    /\ scheduleInterval = 0
    /\ timers = {}
    /\ nextHandle = 1
    /\ fires = 0
    /\ requests = 0
    /\ failedPending = {}
    /\ staleTimers = {}
    /\ firstFires = {}
    /\ cli = CliIdle

NextScript ==
    \/ \E topic \in PostNowTopics : PostNow(topic)
    \/ \E arg \in ScheduleArgs : schedulePosts(arg)
    \/ \E t \in timers : ScriptFire(t)
    \/ Tick

SpecScript == InitScript /\ [][NextScript]_vars

(***************************************************************************)
(* The Node.js scheduler (npm run scheduler): a process of its own that    *)
(* runs the command-line program as a child, npm run dev -- "topic".  A    *)
(* child in flight is a record of generating with phase "exec"; the first  *)
(* one carries intervalHours, the argument of the schedulePosts call that  *)
(* awaits it.                                                              *)
(***************************************************************************)
TOPICS ==
    {<<"c", "o", "d", "i", "n", "g", " ", "b", "e", "s", "t", " ", "p", "r", "a", "c", "t", "i", "c", "e", "s">>,
     <<"d", "e", "v", "e", "l", "o", "p", "e", "r", " ", "p", "r", "o", "d", "u", "c", "t", "i", "v", "i", "t", "y", " ", "t", "i", "p", "s">>,
     <<"s", "o", "f", "t", "w", "a", "r", "e", " ", "e", "n", "g", "i", "n", "e", "e", "r", "i", "n", "g", " ", "i", "n", "s", "i", "g", "h", "t", "s">>,
     <<"p", "r", "o", "g", "r", "a", "m", "m", "i", "n", "g", " ", "w", "i", "s", "d", "o", "m">>,
     <<"t", "e", "c", "h", " ", "i", "n", "d", "u", "s", "t", "r", "y", " ", "t", "r", "e", "n", "d", "s">>}

\* TIMEOUT_MAX of the timers, 2^31 - 1 milliseconds, in whole seconds
TimeoutMaxSeconds == 2147483

\* the period, in minutes, that setInterval(callback, intervalHours * 60 * 60 * 1000)
\* runs with: a delay that is not within 1..TIMEOUT_MAX milliseconds is set to
\* 1 millisecond, which is no minute at all
setIntervalPeriod(intervalHours) ==
    IF intervalHours < 1 \/ intervalHours * 3600 > TimeoutMaxSeconds
    THEN 0
    ELSE intervalHours * 60

\* postToX(topic) up to the await of execAsync; <<>> is the absent topic
ExecStarted(origin, topic, intervalHours) ==
    /\ \E selectedTopic \in (IF topic = <<>> THEN TOPICS ELSE {topic}) :
          generating' = generating \cup
              {[tid |-> NewTid, origin |-> origin, phase |-> "exec", topic |-> selectedTopic,
                ref |-> 0, intervalHours |-> intervalHours]}
    /\ lastResponse' = [NoResponse EXCEPT !.op = origin]

\* the scheduler run with --schedule [hours]: schedulePosts(hours) up to the
\* await of the first postToX
NodeSchedule(arg) ==
    /\ requests = 0
    /\ Received
    /\ ExecStarted("schedulePosts", <<>>, HoursOf(arg))
    /\ UNCHANGED <<now, ticks, envVars, topics, objects, pendingPosts, approving,
                   publishedOk, failedPending, notified, schedVars>>

\* the scheduler run with --post-now [topic]
NodePostNow(topic) ==
    /\ requests = 0
    /\ Received
    /\ ExecStarted("post-now", topic, 0)
    /\ UNCHANGED <<now, ticks, envVars, topics, objects, pendingPosts, approving,
                   publishedOk, failedPending, notified, schedVars>>

\* the child ended with exit code 0 (ok) or execAsync rejected: postToX logs
\* and returns; schedulePosts goes on to setInterval after the first one
NodeExecDone(t, ok) ==
    /\ t \in generating
    /\ t.phase = "exec"
    /\ generating' = generating \ {t}
    /\ lastResponse' = Respond("postToX", NoSuchId, ok,
                               IF ok THEN "" ELSE "Failed to post to X")
    /\ IF t.origin = "schedulePosts"
       THEN /\ timers' = {Interval(nextHandle, now + setIntervalPeriod(t.intervalHours),
                                   setIntervalPeriod(t.intervalHours))}
            /\ nextHandle' = nextHandle + 1
       ELSE UNCHANGED <<timers, nextHandle>>
    /\ UNCHANGED <<now, ticks, envVars, topics, objects, pendingPosts, approving,
                   publishedOk, failedPending, notified, schedule, scheduleInterval, fires,
                   staleTimers, firstFires, requests>>

\* the callback of the scheduler's setInterval, up to the await of execAsync
NodeFire(t) ==
    /\ t \in timers
    /\ Events < MaxEvents
    /\ fires' = fires + 1
    /\ now' = IF t.due > now THEN t.due ELSE now
    /\ ExecStarted("interval", <<>>, 0)
    /\ timers' = {[t EXCEPT !.due = now' + t.period]}
    /\ UNCHANGED <<ticks, envVars, topics, objects, pendingPosts, approving, publishedOk,
                   failedPending, notified, schedule, scheduleInterval, nextHandle,
                   staleTimers, firstFires, requests>>

\* process.argv[scheduleIndex + 1]: absent, 1, 6, 596 and 597 hours, 720 hours (30 days)
NodeScheduleArgs ==
    {<<>>, <<"1">>, <<"6">>, <<"5", "9", "6">>, <<"5", "9", "7">>, <<"7", "2", "0">>}

NodePostNowTopics == {<<>>, CodingTips}

NextNode ==
    \/ \E arg \in NodeScheduleArgs : NodeSchedule(arg)
    \/ \E topic \in NodePostNowTopics : NodePostNow(topic)
    \/ \E t \in generating, ok \in BOOLEAN : NodeExecDone(t, ok)
    \/ \E t \in timers : NodeFire(t)
    \/ Tick

SpecNode == InitScript /\ [][NextNode]_vars

(***************************************************************************)
(* The command-line program (src/index.ts): one run of main.               *)
(***************************************************************************)
\* text.replace(/\s+/g, ' '): every run of whitespace becomes one space
CollapseWhitespace(s) ==
    LET marked == [i \in 1..Len(s) |->
                      [c |-> s[i], first |-> (i = 1 \/ s[i - 1] \notin Whitespace)]]
        kept == SelectSeq(marked, LAMBDA m : m.c \notin Whitespace \/ m.first)
    IN  [i \in 1..Len(kept) |-> IF kept[i].c \in Whitespace THEN " " ELSE kept[i].c]

truncateForX(text) ==
    LET normalized == Trim(CollapseWhitespace(text))
    IN  IF Len(normalized) > 280 THEN Slice(normalized, 0, 280) ELSE normalized

RawFlag == <<"-", "-", "r", "a", "w">>

\* Array.prototype.join(' ')
RECURSIVE Join(_)
Join(args) ==
    IF args = <<>> THEN <<>>
    ELSE IF Len(args) = 1 THEN args[1]
    ELSE args[1] \o <<" ">> \o Join(Tail(args))

\* args.indexOf('--raw') + 1, 0 when the flag is absent
IndexOfRaw(args) ==
    IF \E i \in 1..Len(args) : args[i] = RawFlag
    THEN CHOOSE i \in 1..Len(args) : args[i] = RawFlag /\ \A j \in 1..(i - 1) : args[j] # RawFlag
    ELSE 0

\* getRawFromArgs, <<>> being null
getRawFromArgs(args) ==
    IF IndexOfRaw(args) = 0 THEN <<>>
    ELSE Trim(Join(SubSeq(args, IndexOfRaw(args) + 1, Len(args))))

\* args.filter((a) => a !== '--raw').join(' '), <<>> being undefined
TopicOfArgs(args) == Join(SelectSeq(args, LAMBDA a : a # RawFlag))

\* generatePost without a ContentGenerator
cliGeneratePostFallback(topic) == truncateForX(TipPrefix \o Subject(topic) \o TipSuffix)

\* if (postText) await postToX(postText): nothing is sent on an empty text, and
\* without credentials the text is logged only
PostPrepared(args, postText, generated) ==
    cli' = [pc |-> IF postText # <<>> /\ twitterClient THEN "tweeting" ELSE "done",
            args |-> args, postText |-> postText, generated |-> generated,
            status |-> IF postText # <<>> /\ twitterClient THEN postText ELSE <<>>,
            published |-> FALSE]

\* main up to its first await
CliMain(args) ==
    /\ cli.pc = "idle"
    /\ IF getRawFromArgs(args) # <<>>
       THEN PostPrepared(args, truncateForX(getRawFromArgs(args)), FALSE)
       ELSE IF openRouterClient
            THEN cli' = [cli EXCEPT !.pc = "generating", !.args = args, !.generated = TRUE]
            ELSE PostPrepared(args, cliGeneratePostFallback(TopicOfArgs(args)), TRUE)
    /\ UNCHANGED <<serverVars, openRouterClient, twitterClient, emailConfigured>>

\* the completion arrived with message content c
CliAiDone(c) ==
    /\ cli.pc = "generating"
    /\ PostPrepared(cli.args, truncateForX(Trim(c)), TRUE)
    /\ UNCHANGED <<serverVars, openRouterClient, twitterClient, emailConfigured>>

\* the completion request threw: main rejects and the process exits with 1
CliAiFailed ==
    /\ cli.pc = "generating"
    /\ cli' = [cli EXCEPT !.pc = "failed"]
    /\ UNCHANGED <<serverVars, openRouterClient, twitterClient, emailConfigured>>

\* rw.v2.tweet(status) resolved (ok) or threw
CliTweeted(ok) ==
    /\ cli.pc = "tweeting"
    /\ cli' = [cli EXCEPT !.pc = IF ok THEN "done" ELSE "failed", !.published = ok]
    /\ UNCHANGED <<serverVars, openRouterClient, twitterClient, emailConfigured>>

\* process.argv.slice(2)
CliArgs ==
    {<<>>,
     <<RawFlag>>,
     <<CodingTips>>,
     <<<<"g", "i", "t">>, <<"t", "i", "p", "s">>>>,
     <<Repeat("x", 198)>>,
     <<RawFlag, <<"h", "i">>>>,
     <<RawFlag, <<"a", " ", " ", "b">>>>,
     <<RawFlag, <<" ", "h", "i", " ">>>>,
     <<RawFlag, <<"a", "\n", "b">>>>,
     <<RawFlag, <<"h", "i">>, <<"a", "l", "l">>>>,
     <<RawFlag, <<" ", " ">>>>,
     <<RawFlag, Repeat("x", 280)>>,
     <<RawFlag, Repeat("x", 281)>>,
     <<RawFlag, Repeat("x", 279) \o <<" ", "y">>>>,
     <<<<"g", "i", "t">>, RawFlag, <<"h", "i">>>>}

\* message content of the completion: absent or empty (<<>>), padded, overlong
CliAiTexts == {<<>>, <<" ", "o", "k", " ">>, <<"o", "\n", "\n", "k">>, Repeat("x", 281)}

InitCli == Init /\ ~emailConfigured

NextCli ==
    \/ \E args \in CliArgs : CliMain(args)
    \/ \E c \in CliAiTexts : CliAiDone(c)
    \/ CliAiFailed
    \/ \E ok \in BOOLEAN : CliTweeted(ok)

SpecCli == InitCli /\ [][NextCli]_vars

(***************************************************************************)
(* Specification of the fallback text: the same subject given to the       *)
(* command-line program (as its arguments), to the web server (as the name *)
(* of its only topic) and to the scheduler script (as the topic of         *)
(* --post-now), none of them with a ContentGenerator.  objects collects    *)
(* the posts of the server and of the script.                              *)
(***************************************************************************)
\* subjects: absent, plain, with a run of two spaces, and of the lengths
\* at which the template has 280, 281 and 282 characters
FallbackSubjects ==
    {<<>>, CodingTips, <<"a", " ", " ", "b">>, Repeat("x", 198), Repeat("x", 199),
     Repeat("x", 200)}

NextFallback ==
    \/ \E subject \in FallbackSubjects : CliMain(IF subject = <<>> THEN <<>> ELSE <<subject>>)
    \/ \E subject \in FallbackSubjects : AddTopic(subject)
    \/ GeneratePost
    \/ \E subject \in FallbackSubjects : PostNow(subject)

SpecFallback == InitBare /\ [][NextFallback]_vars

(***************************************************************************)
(* Properties.                                                             *)
(***************************************************************************)
StoreUnchanged == objects' = objects /\ pendingPosts' = pendingPosts

\* the step is the handling of an approve request for id
ApproveReceived(id) ==
    /\ requests' = requests + 1
    /\ \/ lastResponse'.op = "approve" /\ lastResponse'.id = id
       \/ \E t \in approving' : t.id = id /\ t.tid \notin {u.tid : u \in approving}

\* the step is the handling of a reject request for id
RejectReceived(id) ==
    /\ requests' = requests + 1
    /\ lastResponse'.op = "reject"
    /\ lastResponse'.id = id

\* the step is the handling of a generate request
GenerateReceived ==
    /\ requests' = requests + 1
    /\ \/ lastResponse'.op = "generate"
       \/ \E t \in generating' : t.origin = "generate" /\ t.tid \notin {u.tid : u \in generating}

\* the response is a NotFound failure
IsNotFound(resp) == ~resp.success /\ resp.error = ErrPostNotFound

\* the response is a failure raised before any publisher call, other than NotFound
IsInvalidState(resp) == ~resp.success /\ resp.publisher = "none" /\ resp.error # ErrPostNotFound

\* C1: a post whose status is approved or rejected never changes status again
C1_StatusIsTerminal ==
    [][\A r \in 1..Len(objects) :
          objects[r].status \in {"approved", "rejected"}
             => objects'[r].status = objects[r].status]_vars

\* C2: an approve request that was awaiting the publisher while another approve
\* of the same id succeeded does not succeed itself (one publish per post)
C2_OverlappingApprovesOneWinner ==
    (lastResponse.op = "approve" /\ lastResponse.overlapApproved) => ~lastResponse.success

\* C3: an approve request that was awaiting the publisher while a reject of the
\* same id succeeded does not succeed itself (approve and reject are exclusive)
C3_ApproveRejectExclusive ==
    (lastResponse.op = "approve" /\ lastResponse.overlapRejected) => ~lastResponse.success

\* C4: no timer that was armed before the last successful schedule update fires
\* after it
C4_NoStaleTimerFires ==
    [][\A t \in timers : (t.h \in staleTimers /\ fires' = fires + 1) => t \in timers']_vars

\* C5: at most one scheduling timer is live, and exactly one while the schedule
\* is active
C5_SingleLiveTimer ==
    /\ Cardinality(timers) <= 1
    /\ schedule.isActive => Cardinality(timers) = 1

\* C6: approve on an unknown id fails with NotFound and approve on a post that
\* is not pending fails with InvalidState; the publisher is not called and the
\* store is unchanged
C6_ApproveChecksIdAndStatus ==
    [][\A id \in DOMAIN pendingPosts \cup {NoSuchId} :
          ApproveReceived(id) =>
             /\ id \notin DOMAIN pendingPosts =>
                   IsNotFound(lastResponse') /\ approving' = approving /\ StoreUnchanged
             /\ (id \in DOMAIN pendingPosts /\ StatusSeen(id) # "pending") =>
                   IsInvalidState(lastResponse') /\ approving' = approving /\ StoreUnchanged]_vars

\* C7: reject fails with NotFound on an unknown id and with InvalidState on a
\* post that is not pending, leaving the store unchanged; on a pending post it
\* sets the status to rejected and calls no external collaborator
C7_RejectChecksIdAndStatus ==
    [][\A id \in DOMAIN pendingPosts \cup {NoSuchId} :
          RejectReceived(id) =>
             /\ id \notin DOMAIN pendingPosts => IsNotFound(lastResponse') /\ StoreUnchanged
             /\ (id \in DOMAIN pendingPosts /\ StatusSeen(id) # "pending") =>
                   IsInvalidState(lastResponse') /\ StoreUnchanged
             /\ (id \in DOMAIN pendingPosts /\ StatusSeen(id) = "pending") =>
                   /\ lastResponse'.success
                   /\ objects' = [objects EXCEPT ![pendingPosts[id]].status = "rejected"]
                   /\ {t.tid : t \in approving'} = {t.tid : t \in approving}
                   /\ publishedOk' = publishedOk
                   /\ notified' = notified]_vars

\* C8: when the publisher reports failure (missing credentials included) the
\* approve request fails with the publisher's reason and the store is unchanged,
\* so a pending post stays pending; and an approve of a pending post always
\* reaches the publisher, whatever failed before
C8_PublishFailureKeepsPending ==
    [][/\ lastResponse'.publisher = "failed" =>
             /\ lastResponse'.op = "approve"
             /\ ~lastResponse'.success
             /\ lastResponse'.error \in {ErrNoCredentials, ErrTweet}
             /\ StoreUnchanged
       /\ \A id \in DOMAIN pendingPosts :
             (ApproveReceived(id) /\ StatusSeen(id) = "pending") =>
                IF twitterClient
                THEN \E t \in approving' :
                        /\ t.id = id
                        /\ t.ref = pendingPosts[id]
                        /\ t.tid \notin {u.tid : u \in approving}
                ELSE lastResponse'.publisher = "failed"]_vars

\* a post whose publish failed while it was pending got approved by a later approve
C8_RetrySucceeded ==
    /\ lastResponse.op = "approve"
    /\ lastResponse.success
    /\ \E r \in failedPending : objects[r].status = "approved" /\ objects[r].id = lastResponse.id

\* C9: a post has status approved only if a publisher call made for it succeeded
C9_ApprovedOnlyIfPublished ==
    \A r \in 1..Len(objects) : objects[r].status = "approved" => r \in publishedOk

\* a post is approved
C9_SomePostApproved ==
    \E id \in DOMAIN pendingPosts : StatusOf(id) = "approved"

\* C10: a generation (HTTP or scheduled) that finds no active topic creates no
\* post, attempts no notification and reports (or logs) the NoActiveTopics error
C10_NoActiveTopicsNoPost ==
    [][((\A id \in DOMAIN topics : ~topics[id].isActive) /\ (GenerateReceived \/ fires' = fires + 1)) =>
          /\ StoreUnchanged
          /\ notified' = notified
          /\ generating' = generating
          /\ ~lastResponse'.success
          /\ lastResponse'.error = ErrNoActiveTopics
          /\ lastResponse'.op = (IF GenerateReceived THEN "generate"
                                 ELSE IF \E t \in timers : t \notin timers' /\ t.kind = "timeout"
                                      THEN "timeout" ELSE "interval")]_vars

\* a generate request was refused for lack of an active topic, with a topic registered
C10_GenerateRefused ==
    /\ lastResponse.op = "generate"
    /\ lastResponse.error = ErrNoActiveTopics
    /\ DOMAIN topics # {}
    /\ objects = <<>>

\* C11: a generate request made with an active topic never fails: the only
\* failure a generate request reports is the lack of an active topic
C11_GenerateNeverFailsOnGenerator ==
    (lastResponse.op = "generate" /\ ~lastResponse.success) =>
        lastResponse.error = ErrNoActiveTopics

\* C12: without a content generator, a generate request made with an active
\* topic succeeds and appends a pending post whose content is the template
\* "Tip: <subject>. Keep it short, ..." with the name of an active topic as the
\* subject (cut to 279 characters when longer than 280); for the single topic
\* "coding tips" it is the literal text of the scenario
C12_FallbackIsTemplate ==
    [][(/\ GenerateReceived
        /\ ~openRouterClient
        /\ \E id \in DOMAIN topics : topics[id].isActive) =>
          /\ Len(objects') = Len(objects) + 1
          /\ lastResponse'.success
          /\ LET p == objects'[Len(objects')]
                 template == <<"T", "i", "p", ":", " ">> \o p.topic \o TipSuffix
             IN  /\ p.status = "pending"
                 /\ \E id \in DOMAIN topics : topics[id].isActive /\ topics[id].name = p.topic
                 /\ p.content = IF Len(template) <= 280 THEN template
                                 ELSE SubSeq(template, 1, 279)
                 /\ p.topic = CodingTips =>
                       p.content = <<"T", "i", "p", ":", " ", "c", "o", "d", "i", "n", "g", " ", "t", "i", "p", "s", ".", " ", "K", "e", "e", "p", " ", "i", "t", " ", "s", "h", "o", "r", "t", ",", " ", "s", "p", "e", "c", "i", "f", "i", "c", ",", " ", "a", "n", "d", " ", "a", "c", "t", "i", "o", "n", "a", "b", "l", "e", ".", " ", "F", "o", "c", "u", "s", " ", "o", "n", " ", "o", "n", "e", " ", "i", "n", "s", "i", "g", "h", "t", ",", " ", "a", "v", "o", "i", "d", " ", "f", "l", "u", "f", "f", ".">>]_vars

\* the fallback post of the scenario was created
C12_CodingTipsPostCreated ==
    /\ ~openRouterClient
    /\ lastResponse.op = "generate"
    /\ lastResponse.success
    /\ \E r \in 1..Len(objects) :
          /\ objects[r].topic = CodingTips
          /\ objects[r].status = "pending"
          /\ Len(objects[r].content) = 93

\* C13: the content of every post in the store has at most 280 characters
C13_ContentAtMost280 ==
    \A r \in 1..Len(objects) : Len(objects[r].content) <= 280

\* the store holds a fallback post made from a topic name of 199 characters and
\* cut to 279
C13_LongTopicCut ==
    /\ ~openRouterClient
    /\ \E r \in 1..Len(objects) :
          Len(objects[r].topic) = 199 /\ Len(objects[r].content) = 279

\* C14: the content of every post in the store is whitespace-normalized: the
\* only whitespace is the single space, never two in a row, and a text that was
\* not cut has none at its ends
C14_ContentNormalized ==
    \A r \in 1..Len(objects) :
       LET c == objects[r].content
       IN  /\ \A i \in 1..Len(c) : c[i] \in Whitespace => c[i] = " "
           /\ \A i \in 1..(Len(c) - 1) : ~(c[i] = " " /\ c[i + 1] = " ")
           /\ (c # <<>> /\ Len(c) # 279) => (c[1] # " " /\ c[Len(c)] # " ")

\* C15: no step removes a post from the store or puts another post under an id
\* already in use
C15_IdsNeverReused ==
    [][\A id \in DOMAIN pendingPosts :
          id \in DOMAIN pendingPosts' /\ pendingPosts'[id] = pendingPosts[id]]_vars

\* the time is HH:MM with HH in 00..23 and MM in 00..59
WellFormedTime(s) ==
    /\ Len(s) = 5
    /\ s[3] = ":"
    /\ \A i \in {1, 2, 4, 5} : s[i] \in Digits
    /\ DigitVal(s[1]) * 10 + DigitVal(s[2]) <= 23
    /\ DigitVal(s[4]) * 10 + DigitVal(s[5]) <= 59

\* the minute of the day that a well-formed time names
ConfiguredMinute(s) ==
    (DigitVal(s[1]) * 10 + DigitVal(s[2])) * 60 + DigitVal(s[4]) * 10 + DigitVal(s[5])

\* the wall clock of the zone at the instant t, as an instant and as a minute of the day
WallInstant(t, zone) == t + ZoneOffset[zone]

WallClock(t, zone) == WallInstant(t, zone) % 1440

\* the state is the one a successful schedule update left
ScheduleUpdated == lastResponse.op = "schedule" /\ lastResponse.success

\* the first-fire timer the last schedule update armed
ArmedByUpdate == CHOOSE t \in timers : t.h = nextHandle - 1

\* C16: after a schedule update with a well-formed time HH:MM, the first-fire
\* timer is due at the wall-clock time HH:MM of the configured zone
C16_FirstFireAtConfiguredTime ==
    (ScheduleUpdated /\ WellFormedTime(schedule.time)) =>
        /\ ArmedByUpdate.kind = "timeout"
        /\ WallClock(ArmedByUpdate.due, schedule.timezone) = ConfiguredMinute(schedule.time)

\* C17: after a schedule update with a well-formed time, the first fire is
\* later than now by at most 24 hours: it is the configured wall-clock time of
\* today in the zone when that is still ahead, and of the next day otherwise
C17_NextFireWithinOneDay ==
    (ScheduleUpdated /\ WellFormedTime(schedule.time)) =>
        LET wallNow == WallInstant(now, schedule.timezone)
            today == wallNow - (wallNow % 1440) + ConfiguredMinute(schedule.time)
            due == ArmedByUpdate.due
        IN  /\ due > now
            /\ due <= now + 1440
            /\ WallInstant(due, schedule.timezone) =
                  IF today <= wallNow THEN today + 1440 ELSE today

\* the part of the time before the first colon, and the part after it up to
\* the second (<<>> when there is no colon)
HourPart(s) ==
    IF \E i \in 1..Len(s) : s[i] = ":"
    THEN SubSeq(s, 1, (CHOOSE i \in 1..Len(s) :
                          s[i] = ":" /\ \A j \in 1..(i - 1) : s[j] # ":") - 1)
    ELSE s

MinutePart(s) ==
    IF \E i \in 1..Len(s) : s[i] = ":"
    THEN LET rest == SubSeq(s, Len(HourPart(s)) + 2, Len(s))
         IN  IF \E i \in 1..Len(rest) : rest[i] = ":"
             THEN SubSeq(rest, 1, (CHOOSE i \in 1..Len(rest) :
                                     rest[i] = ":" /\ \A j \in 1..(i - 1) : rest[j] # ":") - 1)
             ELSE rest
    ELSE <<>>

\* the part is absent or holds a character that is not a digit
NotANumber(part) == part = <<>> \/ \E i \in 1..Len(part) : part[i] \notin Digits

\* C18 as stated: after a schedule update with a time that is not HH:MM, the
\* first fire is due at 09:00 of the configured zone
C18_UnparsableFiresAt0900 ==
    (ScheduleUpdated /\ ~WellFormedTime(schedule.time)) =>
        WallClock(ArmedByUpdate.due, schedule.timezone) = 9 * 60

\* C18: a schedule update with a time that is not HH:MM succeeds, and each
\* part falls back on its own: the hour is 9 when the hour part is not a
\* number and the minute is 0 when the minute part is absent or not a number
C18_UnparsablePartsFallBack ==
    [][(/\ requests' = requests + 1
        /\ lastResponse'.op = "schedule"
        /\ ~WellFormedTime(schedule'.time)) =>
          /\ lastResponse'.success
          /\ \E t \in timers' \ timers :
                /\ t.kind = "timeout"
                /\ NotANumber(HourPart(schedule'.time)) =>
                      WallClock(t.due, schedule'.timezone) \div 60 = 9
                /\ NotANumber(MinutePart(schedule'.time)) =>
                      WallClock(t.due, schedule'.timezone) % 60 = 0]_vars

\* an update with the time "ab:30" armed a first fire at 09:30
C18_HalfParsedTime ==
    /\ ScheduleUpdated
    /\ schedule.time = <<"a", "b", ":", "3", "0">>
    /\ WallClock(ArmedByUpdate.due, schedule.timezone) = 9 * 60 + 30

\* C19: a schedule update that names a zone the timezone database does not
\* have is answered with a failure and arms no timer
C19_UnknownZoneRejected ==
    [][(/\ requests' = requests + 1
        /\ lastResponse'.op = "schedule"
        /\ schedule'.timezone \notin {"UTC", "Asia/Kolkata", "America/New_York"}) =>
          /\ ~lastResponse'.success
          /\ lastResponse'.error # ""
          /\ timers' \subseteq timers
          /\ nextHandle' = nextHandle]_vars

\* an update naming an unknown zone was refused
C19_UpdateRefused ==
    /\ lastResponse.op = "schedule"
    /\ lastResponse.error = "Invalid time zone specified"
    /\ schedule.timezone = "Mars/Phobos"

\* the period of the recurrence of a frequency
PeriodOf(frequency) ==
    IF frequency = "weekly" THEN 7 * 1440
    ELSE IF frequency = "monthly" THEN 30 * 1440
    ELSE 1440

C22_RecurrenceNeverStops ==
    /\ [](timers # {} \/ \E t \in generating : t.origin = "timeout")
    /\ [][fires' = fires + 1 =>
            \/ lastResponse'.op \in {"timeout", "interval"}
            \/ \E t \in generating' \ generating : t.origin \in {"timeout", "interval"}]_vars
    /\ \A n \in 0..MaxEvents :
          [](fires = n /\ Events < MaxEvents => <>(fires > n \/ Events = MaxEvents))

\* a recurring timer is armed after a scheduled generation that failed
C22_ArmedAfterFailure ==
    /\ lastResponse.op = "timeout"
    /\ ~lastResponse.success
    /\ lastResponse.error = ErrAi
    /\ \E t \in timers : t.kind = "interval"

\* the step is the handling of a topic request answered with op
TopicRequest(op) == requests' = requests + 1 /\ lastResponse'.op = op

\* C23: an add request that fails leaves the registry unchanged, and no add
\* request registers a topic whose name is empty or blank
C23_BlankNameRefused ==
    [][TopicRequest("addTopic") =>
          /\ ~lastResponse'.success => topics' = topics
          /\ lastResponse'.success => Trim(topics'[lastResponse'.id].name) # <<>>]_vars

\* C24: toggle and delete of an id that is not in the registry answer "Topic
\* not found" and leave the registry unchanged; delete of a known id succeeds
\* and removes that topic and no other
C24_UnknownTopicNotFound ==
    [][\A id \in DOMAIN topics \cup {NoSuchId} :
          /\ ((TopicRequest("toggleTopic") \/ TopicRequest("deleteTopic"))
                 /\ lastResponse'.id = id /\ id \notin DOMAIN topics) =>
                /\ ~lastResponse'.success
                /\ lastResponse'.error = "Topic not found"
                /\ topics' = topics
          /\ (TopicRequest("deleteTopic") /\ lastResponse'.id = id /\ id \in DOMAIN topics) =>
                /\ lastResponse'.success
                /\ DOMAIN topics' = DOMAIN topics \ {id}
                /\ \A k \in DOMAIN topics' : topics'[k] = topics[k]]_vars

\* one of two topics was deleted
C24_OneOfTwoDeleted ==
    /\ lastResponse.op = "deleteTopic"
    /\ lastResponse.success
    /\ lastResponse.id \notin DOMAIN topics
    /\ DOMAIN topics # {}

\* C25: a successful add request makes the registry one topic larger, the new
\* topic is active and every topic registered before is kept as it was
C25_AddGrowsRegistryByOne ==
    [][(TopicRequest("addTopic") /\ lastResponse'.success) =>
          /\ Cardinality(DOMAIN topics') = Cardinality(DOMAIN topics) + 1
          /\ topics'[lastResponse'.id].isActive
          /\ \A k \in DOMAIN topics : k \in DOMAIN topics' /\ topics'[k] = topics[k]]_vars

\* C26: the post is in the store as pending when the notification is sent;
\* when the mail server answers, with success or with failure, the generation
\* ends in success with the id of that post and the store is not touched; a
\* notification is sent only for the post just created, and for every post
\* created while the mail transport is configured
C26_MailFailureNotPropagated ==
    [][/\ \A r \in notified' \ notified :
             /\ r = Len(objects')
             /\ Len(objects') = Len(objects) + 1
             /\ objects'[r].status = "pending"
             /\ pendingPosts'[objects'[r].id] = r
       /\ (Len(objects') = Len(objects) + 1 /\ emailConfigured) => Len(objects') \in notified'
       /\ \A t \in generating :
             (t.phase = "mail" /\ t \notin generating') =>
                /\ lastResponse'.mail \in {"sent", "failed"}
                /\ lastResponse'.success
                /\ lastResponse'.op = t.origin
                /\ lastResponse'.id = objects[t.ref].id
                /\ StoreUnchanged
                /\ notified' = notified]_vars

\* a generate request succeeded although the notification of its post failed
C26_MailFailedPostKept ==
    /\ lastResponse.op = "generate"
    /\ lastResponse.mail = "failed"
    /\ lastResponse.success
    /\ lastResponse.id \in DOMAIN pendingPosts
    /\ StatusOf(lastResponse.id) = "pending"

\* C28: the posts of a listing are, without repetition, the stored posts whose
\* status is the filter (all stored posts without a filter), each no older
\* than the next, and the listing changes neither the store nor the registry
C28_ListFilteredNewestFirst ==
    [][(requests' = requests + 1 /\ lastResponse'.op = "list") =>
          LET posts == lastResponse'.posts
              wanted == {pendingPosts[id] : id \in
                            {k \in DOMAIN pendingPosts :
                                lastResponse'.filter = ""
                                \/ objects[pendingPosts[k]].status = lastResponse'.filter}}
          IN  /\ {posts[i] : i \in 1..Len(posts)} = wanted
              /\ Len(posts) = Cardinality(wanted)
              /\ \A i \in 1..Len(posts), j \in 1..Len(posts) :
                    i < j => objects[posts[i]].timestamp >= objects[posts[j]].timestamp
              /\ StoreUnchanged
              /\ topics' = topics]_vars

\* two posts were listed, the newer one first
C28_TwoPostsListed ==
    /\ lastResponse.op = "list"
    /\ Len(lastResponse.posts) = 2
    /\ objects[lastResponse.posts[1]].timestamp > objects[lastResponse.posts[2]].timestamp

\* C29: a schedule update leaves the generations and approvals in flight as
\* they are; an approval in flight can always get the publisher's answer, and
\* a generation waiting for the content generator ends, when the answer
\* arrives, with a new post of its topic in the store or with the generator's
\* failure
C29_InFlightNotCancelled ==
    /\ [][(requests' = requests + 1 /\ lastResponse'.op = "schedule") =>
             approving' = approving /\ generating' = generating /\ StoreUnchanged]_vars
    /\ [][\A t \in generating :
             (t.phase = "ai" /\ \A u \in generating' : u.tid = t.tid => u.phase # "ai") =>
                \/ lastResponse'.op = t.origin /\ lastResponse'.error = ErrAi
                \/ /\ Len(objects') = Len(objects) + 1
                   /\ objects'[Len(objects')].topic = t.topic
                   /\ pendingPosts'[objects'[Len(objects')].id] = Len(objects')]_vars
    /\ [](\A t \in approving : ENABLED ApprovePublished(t, TRUE))

\* a schedule update was handled while a generation and an approval were in flight
C29_UpdateWhileInFlight ==
    /\ lastResponse.op = "schedule"
    /\ lastResponse.success
    /\ generating # {}
    /\ approving # {}

ProvidedText(args) == Join(SubSeq(args, IndexOfRaw(args) + 1, Len(args)))

\* the program was run with --raw followed by text that is not blank
RawMode(args) == IndexOfRaw(args) > 0 /\ Trim(ProvidedText(args)) # <<>>

\* C30: in raw mode the text sent to X is exactly the text given after --raw,
\* and content generation was not invoked
C30_RawPublishedVerbatim ==
    (RawMode(cli.args) /\ cli.published) =>
        /\ cli.status = ProvidedText(cli.args)
        /\ ~cli.generated

\* C31: --schedule N starts a post at once; the interval set afterwards has a
\* period of N hours (24 without N) and is due one period after each firing;
\* each firing starts a post; and the interval stays set whatever a post ends
\* with
C31_PostsEveryNHours ==
    [][/\ (requests = 0 /\ lastResponse'.op = "schedulePosts") =>
              \E g \in generating' : g.origin = "schedulePosts"
       /\ \A g \in generating \ generating' :
              g.origin = "schedulePosts" =>
                  \E t \in timers' : /\ t.kind = "interval"
                                     /\ t.period = g.intervalHours * 60
                                     /\ t.due = now' + t.period
       /\ fires' = fires + 1 =>
              /\ \E g \in generating' \ generating : g.origin = "interval"
              /\ \A t \in timers' : t.due = now' + t.period
       /\ \A t \in timers : \E u \in timers' : u.h = t.h /\ u.period = t.period]_vars

\* name is the name of a topic that is registered and active
RegisteredActive(name) ==
    \E id \in DOMAIN topics : topics[id].isActive /\ topics[id].name = name

\* the step is a generation that selected the topic called name: it went on to
\* await the ContentGenerator with it, or made the fallback post from it
Selected(name) ==
    \/ \E g \in generating' \ generating : g.phase = "ai" /\ g.topic = name
    \/ /\ ~openRouterClient
       /\ Len(objects') = Len(objects) + 1
       /\ objects'[Len(objects')].topic = name

\* C32: the topic a generation selects is the name of a topic registered and
\* active at that moment, the post created when the ContentGenerator answers
\* records the topic selected, and a generate request can select each of the
\* active topics
C32_SelectsAmongActive ==
    /\ [][/\ \A name \in SelectNames : Selected(name) => RegisteredActive(name)
          /\ \A g \in generating' \ generating : g.phase = "ai" => g.topic \in SelectNames
          /\ (Len(objects') = Len(objects) + 1) =>
                 /\ objects'[Len(objects')].topic \in SelectNames
                 /\ openRouterClient =>
                        \E g \in generating \ generating' :
                            g.phase = "ai" /\ g.topic = objects'[Len(objects')].topic]_vars
    /\ [](\A id \in DOMAIN topics :
             (topics[id].isActive /\ Events < MaxEvents) =>
                 ENABLED (GeneratePost /\ Selected(topics[id].name)))

\* two topics are registered and active, and a post made after both were
\* registered carries the name of the later one
C32_ActiveOneOfTwoSelected ==
    \E a, b \in DOMAIN topics :
        /\ topics[a].isActive
        /\ topics[b].isActive
        /\ topics[a].name # topics[b].name
        /\ topics[a].createdAt < topics[b].createdAt
        /\ \E r \in 1..Len(objects) :
              /\ objects[r].topic = topics[b].name
              /\ objects[r].timestamp >= topics[b].createdAt

\* the step handled a schedule update and answered with a failure
ScheduleRefused == requests' = requests + 1 /\ lastResponse'.op = "schedule"
                      /\ ~lastResponse'.success

\* C33: a schedule update that fails leaves the ScheduleConfig and the armed
\* timers as they were before the call
C33_FailedUpdateChangesNothing ==
    [][ScheduleRefused => (schedule' = schedule /\ timers' = timers)]_vars

\* C34: the frequency of the ScheduleConfig is always daily, weekly or monthly
C34_FrequencyInDomain ==
    schedule.frequency \in {"daily", "weekly", "monthly"}

\* C35: a schedule update leaves isActive as it was, and isActive is true in
\* every reachable state
C35_IsActiveNeverCleared ==
    /\ [][(requests' = requests + 1 /\ lastResponse'.op = "schedule") =>
              schedule'.isActive = schedule.isActive]_vars
    /\ [](schedule.isActive = TRUE)

\* an update was accepted and stored, and the schedule is still active
C35_UpdatedAndStillActive ==
    /\ lastResponse.op = "schedule"
    /\ lastResponse.success
    /\ schedule.frequency = "weekly"
    /\ schedule.time = Time1000
    /\ schedule.isActive

\* the posts of the store by id, as GET /api/posts and pendingPosts.get see them
StoreView == [id \in DOMAIN pendingPosts |-> objects[pendingPosts[id]]]

\* the step belongs to an approve or a reject: the request was received, or
\* the approve went on after the publisher's answer
ApproveOrRejectStep ==
    \/ lastResponse'.op \in {"approve", "reject"}
    \/ approving' # approving

\* C36: a step of approve or reject changes at most the status of the post
\* with the id of the request: the store keeps its ids, every other post and
\* the other fields of that post stay as they were, and the topic registry and
\* the ScheduleConfig are untouched
C36_OnlyStatusChanges ==
    [][ApproveOrRejectStep =>
          /\ DOMAIN StoreView' = DOMAIN StoreView
          /\ \A id \in DOMAIN StoreView :
                /\ StoreView'[id].id = StoreView[id].id
                /\ StoreView'[id].content = StoreView[id].content
                /\ StoreView'[id].topic = StoreView[id].topic
                /\ StoreView'[id].timestamp = StoreView[id].timestamp
                /\ (StoreView'[id].status # StoreView[id].status =>
                       lastResponse'.op \in {"approve", "reject"} /\ lastResponse'.id = id)
          /\ topics' = topics
          /\ schedule' = schedule]_vars

\* C37: a toggle of a known topic flips the isActive flag of that topic and
\* changes nothing else in the registry, and toggling a topic of the registry
\* twice gives the registry back
C37_ToggleFlipsOnlyFlag ==
    /\ [][\A id \in DOMAIN topics :
             (TopicRequest("toggleTopic") /\ lastResponse'.id = id) =>
                 /\ lastResponse'.success
                 /\ DOMAIN topics' = DOMAIN topics
                 /\ topics'[id].isActive # topics[id].isActive
                 /\ topics'[id].id = topics[id].id
                 /\ topics'[id].name = topics[id].name
                 /\ topics'[id].createdAt = topics[id].createdAt
                 /\ \A other \in DOMAIN topics \ {id} : topics'[other] = topics[other]]_vars
    /\ [](\A id \in DOMAIN topics : toggle(toggle(topics, id), id) = topics)

\* a topic, registered active, is active again right after a toggle: it was
\* toggled off and on
C37_ToggledTwice ==
    /\ lastResponse.op = "toggleTopic"
    /\ lastResponse.success
    /\ lastResponse.id \in DOMAIN topics
    /\ topics[lastResponse.id].isActive

\* the only whitespace of text is the single space, never two in a row and
\* never at an end
Normalized(text) ==
    /\ \A i \in 1..Len(text) : text[i] \in Whitespace => text[i] = " "
    /\ \A i \in 1..(Len(text) - 1) : ~(text[i] = " " /\ text[i + 1] = " ")
    /\ text # <<>> => (text[1] # " " /\ text[Len(text)] # " ")

\* C38: every result of truncateForX (the text the command-line program
\* prepared) has at most 280 characters, is whitespace-normalized, and is
\* returned unchanged by truncateForX
C38_TruncateNormalizedIdempotent ==
    /\ Len(cli.postText) <= 280
    /\ Normalized(cli.postText)
    /\ truncateForX(cli.postText) = cli.postText

\* the command-line program made its text for this subject without a
\* ContentGenerator
CliFallbackFor(subject) ==
    /\ cli.pc \in {"tweeting", "done", "failed"}
    /\ cli.generated
    /\ ~openRouterClient
    /\ TopicOfArgs(cli.args) = subject

\* C39: the fallback texts made for one subject are the same: those of two
\* posts (of the web server or of the scheduler script) with the same topic,
\* and that of the command-line program and of a post for its subject
C39_SameFallbackEverywhere ==
    ~openRouterClient =>
        /\ \A r, s \in 1..Len(objects) :
              objects[r].topic = objects[s].topic => objects[r].content = objects[s].content
        /\ \A r \in 1..Len(objects) :
              CliFallbackFor(objects[r].topic) => cli.postText = objects[r].content

====
